---- MODULE Spec2Model ----
(***************************************************************************)
(* tap-dagster: the connector entry point (tap.py), the HTTP client        *)
(* accessors (client.py) and the two stream definitions with their         *)
(* paginators and post-processing steps (streams.py).                      *)
(*                                                                         *)
(* Time.  The service's updateTime is a fractional number of seconds.  A   *)
(* float number of seconds is represented by an integer count of ticks,    *)
(* TicksPerSec ticks to the second.  A datetime is a record with a whole   *)
(* seconds part and a sub-second part, as Python's datetime holds them.    *)
(*                                                                         *)
(* JSON.  A value that may be null is a tagged record: None, Str(s),       *)
(* Num(n).  An object is a function from key strings to values; an absent  *)
(* key is a key outside its DOMAIN.                                        *)
(***************************************************************************)
EXTENDS Integers, Sequences, FiniteSets, TLC

VARIABLES
    config,     \* the configuration mapping handed to the tap
    pc,         \* where the execution is
    clock,      \* the service's clock, in ticks
    runs,       \* the runs the service holds, in creation order
    state,      \* the persisted bookmark of the runs stream (None or a datetime)
    starting,   \* the starting replication value of the sync in progress
    bookmark,   \* the in-memory bookmark of the sync in progress
    token,      \* next_page_token: None or the paginator's last value
    request,    \* the request in flight (or the last one sent)
    page,       \* the records matched in the last response, as received
    idx,        \* index in page of the next record to post-process
    emitted,    \* the records emitted by the sync in progress, in order
    nreq,       \* requests sent by the sync in progress
    httpCalls,  \* HTTP requests issued by the whole execution
    syncs,      \* syncs completed
    response,   \* the last assets response envelope
    row,        \* post-processing alone: the raw record
    out         \* post-processing alone: what post_process did

vars == <<config, pc, clock, runs, state, starting, bookmark, token, request,
          page, idx, emitted, nreq, httpCalls, syncs, response, row, out>>

----------------------------------------------------------------------------
(* Bounds *)

TicksPerSec == 2
MaxClock == 3
MaxRuns == 3
PageLimit == 2
MaxSyncs == 2
MaxStartTick == 2
MaxPages == 3

----------------------------------------------------------------------------
(* JSON values and datetimes *)

None == [t |-> "null"]
Str(s) == [t |-> "str", v |-> s]
Num(n) == [t |-> "num", v |-> n]

DateTime(s, f) == [t |-> "dt", sec |-> s, frac |-> f]

\* datetime.fromtimestamp(x, tz=utc), x a float number of seconds (in ticks)
FromTimestamp(x) == DateTime(x \div TicksPerSec, x % TicksPerSec)

\* datetime.timestamp(): the float number of seconds (in ticks)
Timestamp(d) == d.sec * TicksPerSec + d.frac

\* float(math.floor(x)): the whole seconds of x, as a float (in ticks)
MathFloor(x) == (x \div TicksPerSec) * TicksPerSec

Drop(f, k) == [x \in DOMAIN f \ {k} |-> f[x]]

Put(f, k, val) == [x \in DOMAIN f \cup {k} |-> IF x = k THEN val ELSE f[x]]

Last(s) == s[Len(s)]

----------------------------------------------------------------------------
(* tap.py: the configuration schema and the streams the tap discovers *)

\* The JSON type a configuration value has.
TypeOf(val) == IF val.t = "null" THEN "null"
               ELSE IF val.t = "num" THEN "number" ELSE "string"

\* The schema with base_url left out of the required settings.
config_jsonschema_url_optional ==
    [properties |-> [api_token  |-> [type |-> {"string"}],
                     base_url   |-> [type |-> {"string"}],
                     start_date |-> [type |-> {"string", "null"}]],
     required |-> {"api_token"}]

config_jsonschema ==
    [properties |-> [api_token  |-> [type |-> {"string"}],
                     base_url   |-> [type |-> {"string"}],
                     start_date |-> [type |-> {"string", "null"}]],
     required |-> {"api_token", "base_url"}]

\* Validation of a configuration mapping against a schema: every required
\* property is present and every present property has a declared type.
Conforms(cfg, schema) ==
    /\ schema.required \subseteq DOMAIN cfg
    /\ \A k \in DOMAIN cfg \cap DOMAIN schema.properties :
           TypeOf(cfg[k]) \in schema.properties[k].type

discover_streams == <<"runs">>

\* A date-time string: a JSON string that parses to the datetime d.
DateStr(d) == [t |-> "datestr", v |-> d]

\* The configurations: each setting absent, null, a number or a string.
StartDates == {DateStr(DateTime(x \div TicksPerSec, x % TicksPerSec)) : x \in 0..MaxStartTick}

Settings(k) == IF k = "start_date" THEN {None, Num(1)} \cup StartDates
               ELSE {None, Num(1), Str("s")}

ConfigsOver(D) ==
    { cfg \in [D -> UNION {Settings(k) : k \in D}] : \A k \in D : cfg[k] \in Settings(k) }

Configs == UNION { ConfigsOver(D) : D \in SUBSET {"api_token", "base_url", "start_date"} }

----------------------------------------------------------------------------
(* client.py *)

path == "/graphql"

url_base(cfg) == cfg["base_url"]

http_headers(cfg) ==
    [DagsterCloudApiToken |->
        IF "api_token" \in DOMAIN cfg THEN cfg["api_token"] ELSE None]

----------------------------------------------------------------------------
(* streams.py: the runs stream *)

\* records_jsonpath "$.data.runsOrError.results[*]": the matches, in order;
\* a path that is not there matches nothing.
RunsMatches(resp) ==
    IF /\ "data" \in DOMAIN resp
       /\ "runsOrError" \in DOMAIN resp.data
       /\ "results" \in DOMAIN resp.data.runsOrError
    THEN resp.data.runsOrError.results
    ELSE <<>>

\* get_next taking the first match instead of the last.
RunsGetNextFirst(resp) ==
    LET all_matches == RunsMatches(resp)
    IN  IF all_matches = <<>> THEN None
        ELSE all_matches[1]["runId"]

\* RunsPaginator.get_next
RunsGetNext(resp) ==
    LET all_matches == RunsMatches(resp)
    IN  IF all_matches = <<>> THEN None
        ELSE Last(all_matches)["runId"]

\* post_process without the floor.
RunsPostProcessNoFloor(r) ==
    Put(r, "_sdc_update_time", FromTimestamp(r["updateTime"]))

\* post_process rounding to the nearest second.
RunsPostProcessRound(r) ==
    Put(r, "_sdc_update_time",
        FromTimestamp(((2 * r["updateTime"] + TicksPerSec) \div (2 * TicksPerSec)) * TicksPerSec))

\* RunsStream.post_process
RunsPostProcess(r) ==
    Put(r, "_sdc_update_time", FromTimestamp(MathFloor(r["updateTime"])))

\* get_url_params testing the truth of the timestamp number, not of the datetime.
RunsGetUrlParamsFalsyEpoch(start, next_page_token) ==
    LET params == [cursor |-> next_page_token]
    IN  IF start # None /\ Timestamp(start) # 0
        THEN Put(params, "updatedAfter", Timestamp(start))
        ELSE params

\* get_url_params asking for the runs of the second after the bookmark's.
RunsGetUrlParamsNextSecond(start, next_page_token) ==
    LET params == [cursor |-> next_page_token]
    IN  IF start # None
        THEN Put(params, "updatedAfter", Timestamp(start) + TicksPerSec)
        ELSE params

\* RunsStream.get_url_params; start is what get_starting_timestamp returns.
\* A datetime is truthy whatever instant it is; None is not.
RunsGetUrlParams(start, next_page_token) ==
    LET params == [cursor |-> next_page_token]
    IN  IF start # None
        THEN Put(params, "updatedAfter", Timestamp(start))
        ELSE params

----------------------------------------------------------------------------
(* The tap runtime and the service, as the specification describes them *)

\* get_starting_timestamp: the persisted bookmark, or else the configured
\* start_date, or else nothing.
StartingValue(st, cfg) ==
    IF st # None THEN st
    ELSE IF "start_date" \in DOMAIN cfg /\ cfg["start_date"] # None
         THEN cfg["start_date"].v
         ELSE None

\* The bookmark after a record with replication key value rk is emitted.
AdvanceBookmark(bm, rk) ==
    IF bm = None THEN rk
    ELSE IF Timestamp(rk) >= Timestamp(bm) THEN rk ELSE bm

\* Position of the run a cursor names in the service's order (0: none).
CursorPos(rs, cursor) ==
    IF cursor = None THEN 0
    ELSE IF \E i \in 1..Len(rs) : rs[i]["runId"] = cursor
         THEN CHOOSE i \in 1..Len(rs) : rs[i]["runId"] = cursor
         ELSE Len(rs)

\* filter: {updatedAfter}: the runs updated at or after the bound.
UpdatedAfter(r, variables) ==
    "updatedAfter" \in DOMAIN variables => r["updateTime"] >= variables["updatedAfter"]

RECURSIVE Filtered(_, _, _)
Filtered(rs, i, variables) ==
    IF i > Len(rs) THEN <<>>
    ELSE IF UpdatedAfter(rs[i], variables)
         THEN <<rs[i]>> \o Filtered(rs, i + 1, variables)
         ELSE Filtered(rs, i + 1, variables)

\* PaginatedRunsQuery: at most `limit` of the matching runs after the cursor.
RunsQuery(rs, variables) ==
    LET rest == Filtered(rs, CursorPos(rs, variables["cursor"]) + 1, variables)
        n    == IF Len(rest) < PageLimit THEN Len(rest) ELSE PageLimit
    IN  [data |-> [runsOrError |-> [results |-> SubSeq(rest, 1, n)]]]

NewRun(i, now) == [runId |-> Str(i), status |-> Str("SUCCESS"), updateTime |-> now]

----------------------------------------------------------------------------
(* The execution of the tap: configuration, then syncs of the runs stream *)

Init ==
    /\ config \in Configs
    /\ pc = "start"
    /\ clock = 0
    /\ runs = <<>>
    /\ state = None
    /\ starting = None
    /\ bookmark = None
    /\ token = None
    /\ request = [variables |-> [cursor |-> None]]
    /\ page = <<>>
    /\ idx = 1
    /\ emitted = <<>>
    /\ nreq = 0
    /\ httpCalls = 0
    /\ syncs = 0
    /\ response = [data |-> None]
    /\ row = None
    /\ out = None

\* Tap.__init__: the configuration is validated before anything else.
ValidateConfig ==
    /\ pc = "start"
    /\ pc' = IF Conforms(config, config_jsonschema) THEN "idle" ELSE "config_error"
    /\ UNCHANGED <<config, clock, runs, state, starting, bookmark, token, request,
                   page, idx, emitted, nreq, httpCalls, syncs, response, row, out>>

\* The service, between syncs.
Tick ==
    /\ pc = "idle" /\ syncs < MaxSyncs
    /\ clock < MaxClock
    /\ clock' = clock + 1
    /\ UNCHANGED <<config, pc, runs, state, starting, bookmark, token, request,
                   page, idx, emitted, nreq, httpCalls, syncs, response, row, out>>

CreateRun ==
    /\ pc = "idle" /\ syncs < MaxSyncs
    /\ Len(runs) < MaxRuns
    /\ runs' = Append(runs, NewRun(Len(runs) + 1, clock))
    /\ UNCHANGED <<config, pc, clock, state, starting, bookmark, token, request,
                   page, idx, emitted, nreq, httpCalls, syncs, response, row, out>>

UpdateRun ==
    /\ pc = "idle" /\ syncs < MaxSyncs
    /\ \E i \in 1..Len(runs) :
          /\ runs[i]["updateTime"] < clock
          /\ runs' = [runs EXCEPT ![i] = Put(@, "updateTime", clock)]
    /\ UNCHANGED <<config, pc, clock, state, starting, bookmark, token, request,
                   page, idx, emitted, nreq, httpCalls, syncs, response, row, out>>

\* A sync of each discovered stream begins: the bookmark is seeded.
StartSync ==
    /\ pc = "idle" /\ syncs < MaxSyncs
    /\ discover_streams = <<"runs">>
    /\ starting' = StartingValue(state, config)
    /\ bookmark' = StartingValue(state, config)
    /\ token' = None
    /\ page' = <<>>
    /\ idx' = 1
    /\ emitted' = <<>>
    /\ nreq' = 0
    /\ pc' = "request"
    /\ UNCHANGED <<config, clock, runs, state, request, httpCalls, syncs,
                   response, row, out>>

\* The request of the next page.
RunsSendRequest ==
    /\ pc = "request"
    /\ request' = [url |-> <<url_base(config), path>>,
                   headers |-> http_headers(config),
                   variables |-> RunsGetUrlParams(starting, token)]
    /\ nreq' = nreq + 1
    /\ httpCalls' = httpCalls + 1
    /\ pc' = "await"
    /\ UNCHANGED <<config, clock, runs, state, starting, bookmark, token,
                   page, idx, emitted, syncs, response, row, out>>

\* The response arrives; its records are the matches of records_jsonpath.
RunsReceivePage ==
    /\ pc = "await"
    /\ response' = RunsQuery(runs, request.variables)
    /\ page' = RunsMatches(RunsQuery(runs, request.variables))
    /\ idx' = 1
    /\ pc' = "records"
    /\ UNCHANGED <<config, clock, runs, state, starting, bookmark, token, request,
                   emitted, nreq, httpCalls, syncs, row, out>>

\* One record is post-processed and emitted; the bookmark advances.
RunsEmitRecord ==
    /\ pc = "records"
    /\ idx <= Len(page)
    /\ LET rec == RunsPostProcess(page[idx])
       IN  /\ emitted' = Append(emitted, rec)
           /\ bookmark' = AdvanceBookmark(bookmark, rec["_sdc_update_time"])
    /\ idx' = idx + 1
    /\ UNCHANGED <<config, pc, clock, runs, state, starting, token, request,
                   page, nreq, httpCalls, syncs, response, row, out>>

\* The page is drained; the paginator reads the response.
RunsAdvance ==
    /\ pc = "records"
    /\ idx > Len(page)
    /\ LET nxt == RunsGetNext(response)
       IN  IF nxt = None
           THEN /\ pc' = "finish"
                /\ token' = token
           ELSE /\ pc' = "request"
                /\ token' = nxt
    /\ UNCHANGED <<config, clock, runs, state, starting, bookmark, request,
                   page, idx, emitted, nreq, httpCalls, syncs, response, row, out>>

\* The sync ends; the runtime persists the bookmark.
FinishSync ==
    /\ pc = "finish"
    /\ state' = bookmark
    /\ syncs' = syncs + 1
    /\ pc' = "idle"
    /\ UNCHANGED <<config, clock, runs, starting, bookmark, token, request,
                   page, idx, emitted, nreq, httpCalls, response, row, out>>

Next ==
    \/ ValidateConfig
    \/ Tick
    \/ CreateRun
    \/ UpdateRun
    \/ StartSync
    \/ RunsSendRequest
    \/ RunsReceivePage
    \/ RunsEmitRecord
    \/ RunsAdvance
    \/ FinishSync

Spec == Init /\ [][Next]_vars

----------------------------------------------------------------------------
(* streams.py: the assets stream *)

\* Whether a JSON value is an object (a mapping) rather than null.
IsObject(x) == "t" \notin DOMAIN x

\* records_jsonpath "$.data.assetsOrError.nodes[*]"
AssetsMatches(resp) ==
    IF /\ "data" \in DOMAIN resp
       /\ IsObject(resp["data"])
       /\ "assetsOrError" \in DOMAIN resp["data"]
       /\ IsObject(resp["data"]["assetsOrError"])
       /\ "nodes" \in DOMAIN resp["data"]["assetsOrError"]
    THEN resp["data"]["assetsOrError"]["nodes"]
    ELSE <<>>

Raise(e) == [raised |-> TRUE, error |-> e]
Return(val) == [raised |-> FALSE, value |-> val]

\* Python truthiness of a value that is None or a string.
Truthy(x) == x # None /\ x # Str("")

\* get_next deriving the token from the last node instead of the envelope.
AssetsGetNextFromNodes(resp) ==
    IF "data" \notin DOMAIN resp THEN Raise("KeyError")
    ELSE IF ~IsObject(resp["data"]) THEN Raise("TypeError")
    ELSE IF "assetsOrError" \notin DOMAIN resp["data"] THEN Raise("KeyError")
    ELSE IF ~IsObject(resp["data"]["assetsOrError"]) THEN Raise("TypeError")
    ELSE IF "cursor" \notin DOMAIN resp["data"]["assetsOrError"] THEN Raise("KeyError")
    ELSE LET nodes == resp["data"]["assetsOrError"]["nodes"]
         IN  IF nodes = <<>> THEN Return(None) ELSE Return(Str(Last(nodes)["id"]))

\* AssetsPaginator.get_next: the subscripts raise when a key is missing
\* (KeyError) or when what is subscripted is None (TypeError).
AssetsGetNext(resp) ==
    IF "data" \notin DOMAIN resp THEN Raise("KeyError")
    ELSE IF ~IsObject(resp["data"]) THEN Raise("TypeError")
    ELSE IF "assetsOrError" \notin DOMAIN resp["data"] THEN Raise("KeyError")
    ELSE IF ~IsObject(resp["data"]["assetsOrError"]) THEN Raise("TypeError")
    ELSE IF "cursor" \notin DOMAIN resp["data"]["assetsOrError"] THEN Raise("KeyError")
    ELSE LET cursor == resp["data"]["assetsOrError"]["cursor"]
         IN  IF ~Truthy(cursor) THEN Return(None) ELSE Return(cursor)

\* AssetsStream.get_url_params
AssetsGetUrlParams(next_page_token) == [cursor |-> next_page_token]

\* dict |= dict
Merge(a, b) == [x \in DOMAIN a \cup DOMAIN b |-> IF x \in DOMAIN b THEN b[x] ELSE a[x]]

\* post_process reading the definition with get, leaving it in the row.
AssetsPostProcessGet(r) ==
    LET keyed      == Put(r, "key", r["key"]["path"])
        definition == IF "definition" \in DOMAIN keyed THEN keyed["definition"] ELSE None
    IN  IF definition # None
        THEN Merge(keyed,
                   [repository_id |-> definition["repository"]["id"],
                    group_name    |-> definition["groupName"],
                    dependencies  |-> [i \in 1..Len(definition["dependencies"]) |->
                                          definition["dependencies"][i]["asset"]["id"]],
                    kinds         |-> definition["kinds"],
                    tags          |-> definition["tags"]])
        ELSE keyed

\* post_process lifting null fields from a definition that is not there.
AssetsPostProcessNulls(r) ==
    LET keyed      == Put(r, "key", r["key"]["path"])
        definition == IF "definition" \in DOMAIN keyed THEN keyed["definition"] ELSE None
        popped     == Drop(keyed, "definition")
    IN  IF definition # None
        THEN Merge(popped,
                   [repository_id |-> definition["repository"]["id"],
                    group_name    |-> definition["groupName"],
                    dependencies  |-> [i \in 1..Len(definition["dependencies"]) |->
                                          definition["dependencies"][i]["asset"]["id"]],
                    kinds         |-> definition["kinds"],
                    tags          |-> definition["tags"]])
        ELSE Merge(popped,
                   [repository_id |-> None, group_name |-> None, dependencies |-> None,
                    kinds |-> None, tags |-> None])

\* AssetsStream.post_process
AssetsPostProcess(r) ==
    LET keyed      == Put(r, "key", r["key"]["path"])
        definition == IF "definition" \in DOMAIN keyed THEN keyed["definition"] ELSE None
        popped     == Drop(keyed, "definition")
    IN  IF definition # None
        THEN Merge(popped,
                   [repository_id |-> definition["repository"]["id"],
                    group_name    |-> definition["groupName"],
                    dependencies  |-> [i \in 1..Len(definition["dependencies"]) |->
                                          definition["dependencies"][i]["asset"]["id"]],
                    kinds         |-> definition["kinds"],
                    tags          |-> definition["tags"]])
        ELSE popped

----------------------------------------------------------------------------
(* Raw records, as the service returns them *)

Dep(a) == [asset |-> [id |-> a]]

DependencyLists == {<<>>, <<Dep("a2")>>, <<Dep("a2"), Dep("a3")>>, <<Dep("a3"), Dep("a2")>>}

KindLists == {<<>>, <<"python">>, <<"python", "dbt">>}

TagLists == {<<>>, <<[key |-> "owner", value |-> "team1"]>>}

Definitions ==
    [id : {"d1"}, repository : {[id |-> "r1"], [id |-> "r2"]}, groupName : {"g1", "g2"},
     dependencies : DependencyLists, kinds : KindLists, tags : TagLists]

KeyPaths == {<<"a">>, <<"b", "a">>, <<"a", "b", "c">>}

AssetsWithDefinition ==
    [id : {"a1", "a2"}, key : [path : KeyPaths], definition : Definitions \cup {None}]

AssetsWithoutDefinition == [id : {"a1", "a2"}, key : [path : KeyPaths]]

RunsWithOrigin ==
    [runId : {Str(1), Str(2)}, status : {Str("SUCCESS")},
     updateTime : 0..(TicksPerSec * MaxClock),
     repositoryOrigin : {None, [repositoryLocationName |-> "loc"]}]

RunsWithoutOrigin ==
    [runId : {Str(1), Str(2)}, status : {Str("SUCCESS")},
     updateTime : 0..(TicksPerSec * MaxClock)]

----------------------------------------------------------------------------
(* Post-processing alone: one raw record, one call *)

InitPost ==
    /\ \/ pc = "raw_run" /\ row \in RunsWithOrigin
       \/ pc = "raw_run" /\ row \in RunsWithoutOrigin
       \/ pc = "raw_asset" /\ row \in AssetsWithDefinition
       \/ pc = "raw_asset" /\ row \in AssetsWithoutDefinition
    /\ out = None
    /\ config = [api_token |-> Str("s"), base_url |-> Str("s")]
    /\ clock = 0
    /\ runs = <<>>
    /\ state = None
    /\ starting = None
    /\ bookmark = None
    /\ token = None
    /\ request = [variables |-> [cursor |-> None]]
    /\ page = <<>>
    /\ idx = 1
    /\ emitted = <<>>
    /\ nreq = 0
    /\ httpCalls = 0
    /\ syncs = 0
    /\ response = [data |-> None]

PostProcessRun ==
    /\ pc = "raw_run"
    /\ out' = RunsPostProcess(row)
    /\ pc' = "run_done"
    /\ UNCHANGED <<config, clock, runs, state, starting, bookmark, token, request,
                   page, idx, emitted, nreq, httpCalls, syncs, response, row>>

PostProcessAsset ==
    /\ pc = "raw_asset"
    /\ out' = AssetsPostProcess(row)
    /\ pc' = "asset_done"
    /\ UNCHANGED <<config, clock, runs, state, starting, bookmark, token, request,
                   page, idx, emitted, nreq, httpCalls, syncs, response, row>>

NextPost == PostProcessRun \/ PostProcessAsset

SpecPost == InitPost /\ [][NextPost]_vars

----------------------------------------------------------------------------
(* A sync of the assets stream.  The tap does not discover this stream;   *)
(* this is the stream instantiated on a tap whose configuration is valid. *)

Asset1 == [id |-> "a1", key |-> [path |-> <<"a", "b", "c">>],
           definition |-> [id |-> "d1", repository |-> [id |-> "r1"], groupName |-> "g1",
                           dependencies |-> <<Dep("a2")>>, kinds |-> <<"python">>,
                           tags |-> <<[key |-> "owner", value |-> "team1"]>>]]

Asset2 == [id |-> "a2", key |-> [path |-> <<"a">>], definition |-> None]

NodeLists == {<<>>, <<Asset1>>, <<Asset1, Asset2>>}

Cursors == {None, Str(""), Str("c1"), Str("c2"), Str("c3")}

\* An AssetConnection answer.
AssetConnection(nodes, cursor) ==
    [data |-> [assetsOrError |-> [nodes |-> nodes, cursor |-> cursor]]]

\* Answers without the connection: no data key, a null data, a data
\* without assetsOrError, and an assetsOrError that is not an
\* AssetConnection (the fragment selects nothing of it).
NoData == [errors |-> <<"internal">>]
NullData == [data |-> None]
NoAssetsOrError == [data |-> [other |-> None]]
NotAConnection == [data |-> [assetsOrError |-> [other |-> None]]]

InitAssets ==
    /\ config = [api_token |-> Str("s"), base_url |-> Str("s")]
    /\ pc = "assets_request"
    /\ token = None
    /\ request = [variables |-> [cursor |-> None]]
    /\ response = [data |-> None]
    /\ page = <<>>
    /\ idx = 1
    /\ emitted = <<>>
    /\ nreq = 0
    /\ httpCalls = 0
    /\ clock = 0
    /\ runs = <<>>
    /\ state = None
    /\ starting = None
    /\ bookmark = None
    /\ syncs = 0
    /\ row = None
    /\ out = None

AssetsSendRequest ==
    /\ pc = "assets_request"
    /\ request' = [url |-> <<url_base(config), path>>,
                   headers |-> http_headers(config),
                   variables |-> AssetsGetUrlParams(token)]
    /\ nreq' = nreq + 1
    /\ httpCalls' = httpCalls + 1
    /\ pc' = "assets_await"
    /\ UNCHANGED <<config, clock, runs, state, starting, bookmark, token,
                   page, idx, emitted, syncs, response, row, out>>

\* The service answers.  A cursor it hands out is a new one, and the
\* catalog is finite: the last page allowed carries no further cursor.
AssetsReceivePage ==
    /\ pc = "assets_await"
    /\ \/ \E nodes \in NodeLists, cursor \in Cursors :
             /\ Truthy(cursor) => cursor # request.variables["cursor"]
             /\ Truthy(cursor) => nreq < MaxPages
             /\ response' = AssetConnection(nodes, cursor)
       \/ response' = NoData
       \/ response' = NullData
       \/ response' = NoAssetsOrError
       \/ response' = NotAConnection
    /\ page' = AssetsMatches(response')
    /\ idx' = 1
    /\ pc' = "assets_records"
    /\ UNCHANGED <<config, clock, runs, state, starting, bookmark, token, request,
                   emitted, nreq, httpCalls, syncs, row, out>>

AssetsEmitRecord ==
    /\ pc = "assets_records"
    /\ idx <= Len(page)
    /\ emitted' = Append(emitted, AssetsPostProcess(page[idx]))
    /\ idx' = idx + 1
    /\ UNCHANGED <<config, pc, clock, runs, state, starting, bookmark, token, request,
                   page, nreq, httpCalls, syncs, response, row, out>>

\* The page is drained; the paginator reads the response.  An exception
\* of get_next is not caught: the sync aborts.
AssetsAdvance ==
    /\ pc = "assets_records"
    /\ idx > Len(page)
    /\ LET got == AssetsGetNext(response)
       IN  IF got.raised
           THEN /\ pc' = "assets_fault"
                /\ token' = token
           ELSE IF got.value = None
           THEN /\ pc' = "assets_finish"
                /\ token' = token
           ELSE /\ pc' = "assets_request"
                /\ token' = got.value
    /\ UNCHANGED <<config, clock, runs, state, starting, bookmark, request,
                   page, idx, emitted, nreq, httpCalls, syncs, response, row, out>>

NextAssets ==
    \/ AssetsSendRequest
    \/ AssetsReceivePage
    \/ AssetsEmitRecord
    \/ AssetsAdvance

SpecAssets == InitAssets /\ [][NextAssets]_vars

----------------------------------------------------------------------------
(* Properties *)

InSync == pc \in {"request", "await", "records", "finish"}

\* The lower bound of the sync in progress: the bookmark the previous sync
\* persisted, or else the configured start_date, or else none.
HasStartDate == "start_date" \in DOMAIN config /\ config["start_date"].t = "datestr"

HasLowerBound == state # None \/ HasStartDate

LowerBound == IF state # None THEN state ELSE config["start_date"].v

\* A datetime's epoch seconds, as a float number of seconds (in ticks).
EpochSeconds(d) == d.sec * TicksPerSec + d.frac

WholeSecond(d) == d = None \/ d.frac = 0

\* C1: after a non-empty page of runs, the next token is the runId of the
\* page's last record and the next request carries it as its cursor; after
\* an empty page there is no token: pagination ends and no request follows.
C1_Pages ==
    /\ (pc = "request" /\ nreq > 0) =>
           (page # <<>> /\ token = Last(page)["runId"])
    /\ (pc = "await" /\ nreq > 1) =>
           (page # <<>> /\ request.variables["cursor"] = Last(page)["runId"])
    /\ pc = "finish" => page = <<>>

C1_Steps ==
    /\ (pc = "records" /\ pc' # "records" /\ page # <<>>) =>
           (pc' = "request" /\ token' = Last(page)["runId"])
    /\ (pc = "records" /\ pc' # "records" /\ page = <<>>) =>
           (pc' = "finish" /\ httpCalls' = httpCalls)
    /\ pc = "finish" => httpCalls' = httpCalls

C1_RunsPagination == [](C1_Pages) /\ [][C1_Steps]_vars

W_C1 == pc = "finish" /\ nreq = 3 /\ page = <<>> /\ Len(emitted) = MaxRuns

\* C2: the assets paginator returns exactly the cursor of the response
\* envelope when it is a non-empty string and no token when it is null or
\* empty; the next request's cursor is that token; the first is none.
HasCursorLocation(resp) ==
    /\ "data" \in DOMAIN resp
    /\ IsObject(resp["data"])
    /\ "assetsOrError" \in DOMAIN resp["data"]
    /\ IsObject(resp["data"]["assetsOrError"])
    /\ "cursor" \in DOMAIN resp["data"]["assetsOrError"]

EnvelopeCursor(resp) == resp["data"]["assetsOrError"]["cursor"]

NonEmptyString(x) == x.t = "str" /\ x.v # ""

C2_AssetsPagination ==
    /\ pc = "assets_await" =>
          /\ request.variables = [cursor |-> token]
          /\ nreq = 1 => request.variables["cursor"] = None
    /\ (pc \in {"assets_request", "assets_await", "assets_finish"}
           /\ HasCursorLocation(response)) =>
          IF NonEmptyString(EnvelopeCursor(response))
          THEN pc \in {"assets_request", "assets_await"} /\ token = EnvelopeCursor(response)
          ELSE pc = "assets_finish"

W_C2 ==
    /\ pc = "assets_await" /\ nreq = 2
    /\ EnvelopeCursor(response) = Str("c1")
    /\ request.variables["cursor"] = Str("c1")
    /\ Len(page) = 2

\* C3: a runs request carries updatedAfter if and only if a starting
\* bookmark exists (the persisted one, or else start_date), and then as
\* that instant's epoch seconds; cursor is always there, none on page one.
C3_RunsRequestParams ==
    pc \in {"await", "records", "finish"} =>
        /\ "cursor" \in DOMAIN request.variables
        /\ DOMAIN request.variables \subseteq {"cursor", "updatedAfter"}
        /\ nreq = 1 => request.variables["cursor"] = None
        /\ "updatedAfter" \in DOMAIN request.variables <=> HasLowerBound
        /\ HasLowerBound =>
               request.variables["updatedAfter"] = EpochSeconds(LowerBound)

W_C3 ==
    /\ pc = "await" /\ nreq = 1 /\ syncs = 1
    /\ state # None /\ state.sec = 1
    /\ request.variables["updatedAfter"] = TicksPerSec

\* C4: a finished sync with lower bound B has emitted every run the
\* service holds whose update time is at or after B (all of them without
\* a bound), runs updated within the bookmark's own second included.
Emitted(r) ==
    \E j \in 1..Len(emitted) :
        /\ emitted[j]["runId"] = r["runId"]
        /\ emitted[j]["updateTime"] = r["updateTime"]

C4_IncrementalComplete ==
    pc = "finish" =>
        \A i \in 1..Len(runs) :
            (HasLowerBound => runs[i]["updateTime"] >= EpochSeconds(LowerBound))
                => Emitted(runs[i])

W_C4 ==
    /\ pc = "finish" /\ syncs = 1 /\ state # None
    /\ \E i \in 1..Len(runs) :
          /\ runs[i]["updateTime"] \div TicksPerSec = state.sec
          /\ runs[i]["updateTime"] % TicksPerSec # 0
          /\ Emitted(runs[i])
    /\ \E i \in 1..Len(runs) : ~Emitted(runs[i])


\* The latest of a seed and the replication key values of some records.
Candidates(seed, recs) ==
    (IF seed = None THEN {} ELSE {seed})
        \cup {recs[j]["_sdc_update_time"] : j \in 1..Len(recs)}

LatestOf(seed, recs) ==
    IF Candidates(seed, recs) = {} THEN None
    ELSE CHOOSE d \in Candidates(seed, recs) :
             \A e \in Candidates(seed, recs) : EpochSeconds(e) <= EpochSeconds(d)

BookmarkIsLatest == InSync => bookmark = LatestOf(starting, emitted)

BookmarkSeeded == (pc = "request" /\ nreq = 0) => bookmark = (IF HasLowerBound THEN LowerBound ELSE None)

BookmarkNeverDecreases ==
    (InSync /\ pc' # "idle" /\ bookmark # None) =>
        (bookmark' # None /\ EpochSeconds(bookmark') >= EpochSeconds(bookmark))

C6_FloorsUpdateTime ==
    pc = "run_done" =>
        /\ out["_sdc_update_time"].frac = 0
        /\ out["_sdc_update_time"].sec * TicksPerSec <= row["updateTime"]
        /\ row["updateTime"] < (out["_sdc_update_time"].sec + 1) * TicksPerSec
        /\ out["updateTime"] = row["updateTime"]

W_C6 ==
    /\ pc = "run_done"
    /\ row["updateTime"] = TicksPerSec + (TicksPerSec - 1)
    /\ out["_sdc_update_time"] = DateTime(1, 0)

\* C7: post-processing an asset with a definition D yields key = the path,
\* repository_id, group_name, the dependencies' asset ids in order, kinds
\* and tags from D, the same id, and no definition field.
HasDefinition(r) == "definition" \in DOMAIN r /\ r["definition"] # None

C7_AssetLifted ==
    (pc = "asset_done" /\ HasDefinition(row)) =>
        LET D == row["definition"]
        IN  /\ out["key"] = row["key"]["path"]
            /\ out["repository_id"] = D["repository"]["id"]
            /\ out["group_name"] = D["groupName"]
            /\ Len(out["dependencies"]) = Len(D["dependencies"])
            /\ \A i \in 1..Len(D["dependencies"]) :
                   out["dependencies"][i] = D["dependencies"][i]["asset"]["id"]
            /\ out["kinds"] = D["kinds"]
            /\ out["tags"] = D["tags"]
            /\ out["id"] = row["id"]
            /\ "definition" \notin DOMAIN out

W_C7 ==
    /\ pc = "asset_done" /\ HasDefinition(row)
    /\ row["key"]["path"] = <<"a", "b", "c">>
    /\ out["dependencies"] = <<"a3", "a2">>
    /\ out["tags"] = <<[key |-> "owner", value |-> "team1"]>>

\* C8: a configuration without a string api_token or a string base_url
\* ends in a configuration error: no request is issued and no stream runs;
\* a request only occurs under a configuration holding both.
HasString(cfg, k) == k \in DOMAIN cfg /\ cfg[k].t = "str"

C8_ConfigFirst ==
    LET ok == HasString(config, "api_token") /\ HasString(config, "base_url")
    IN  /\ (httpCalls > 0 \/ InSync \/ pc = "idle") => ok
        /\ ~ok => (pc \in {"start", "config_error"}
                      /\ httpCalls = 0 /\ nreq = 0 /\ syncs = 0 /\ emitted = <<>>)

W_C8 ==
    /\ pc = "config_error"
    /\ "base_url" \notin DOMAIN config
    /\ HasString(config, "api_token")

\* C9: an assets response without the cursor location ends pagination
\* normally: no token, no fault.
C9_MissingCursorEnds ==
    (pc \in {"assets_request", "assets_finish", "assets_fault"}
        /\ nreq > 0 /\ ~HasCursorLocation(response)) =>
        (pc = "assets_finish" /\ AssetsGetNext(response) = Return(None))

\* C10: a run without repositoryOrigin comes back with every field as it
\* was plus _sdc_update_time only; an asset without a definition comes
\* back with its key flattened and no lifted field; a record comes back.
Lifted == {"repository_id", "group_name", "dependencies", "kinds", "tags"}

NoOrigin(r) == "repositoryOrigin" \notin DOMAIN r \/ r["repositoryOrigin"] = None

C10_PassedThrough ==
    /\ (pc = "run_done" /\ NoOrigin(row)) =>
          /\ out # None
          /\ DOMAIN out = DOMAIN row \cup {"_sdc_update_time"}
          /\ \A k \in DOMAIN row : out[k] = row[k]
    /\ (pc = "asset_done" /\ ~HasDefinition(row)) =>
          /\ out # None
          /\ DOMAIN out = {"id", "key"}
          /\ DOMAIN out \cap Lifted = {}
          /\ out["key"] = row["key"]["path"]
          /\ out["id"] = row["id"]

W_C10 ==
    /\ pc = "asset_done"
    /\ "definition" \in DOMAIN row /\ row["definition"] = None
    /\ out = [id |-> "a2", key |-> <<"b", "a">>]

====
